---- MODULE Spec2Model ----
(***************************************************************************)
(* Job watcher: the fetch -> filter -> de-dupe -> notify -> persist        *)
(* pipeline of watch_all.py (Uber + Microsoft) and watch_uber.py (Uber).   *)
(*                                                                         *)
(* A behaviour is a sequence of invocations of ONE of the two scripts      *)
(* (prog is fixed by Init) against the career sites, the SMTP server and   *)
(* the scripts' state files.  Each step of main() is one action.           *)
(*                                                                         *)
(* Spec and SpecCrash are such behaviours.  SpecWrite and SpecRender are   *)
(* one run with a failing write of a state file, or a page that does not   *)
(* render; SpecRace is two runs side by side; SpecLoad, SpecUrl and        *)
(* SpecMatch call load_seen, the normalisation of an href and              *)
(* matches_target on their own.                                            *)
(***************************************************************************)
EXTENDS Integers, Sequences, FiniteSets, TLC

\* Longest listing a site serves in one fetch.
MaxJobs == 2

(***************************************************************************)
(* Strings are sequences of one-character strings, so that lower() and     *)
(* Python's substring test `in` are computed and not assumed.              *)
(***************************************************************************)
UpperCase ==
    <<"A","B","C","D","E","F","G","H","I","J","K","L","M","N","O","P","Q","R","S","T","U","V","W","X","Y","Z">>

LowerCase ==
    <<"a","b","c","d","e","f","g","h","i","j","k","l","m","n","o","p","q","r","s","t","u","v","w","x","y","z">>

\* str.lower() on one character (ASCII titles).
lower_char(c) ==
    IF \E i \in DOMAIN UpperCase : UpperCase[i] = c
    THEN LowerCase[CHOOSE i \in DOMAIN UpperCase : UpperCase[i] = c]
    ELSE c

\* str.lower()
lower(s) == [i \in 1..Len(s) |-> lower_char(s[i])]

\* Python's `p in s` on strings.
Contains(s, p) ==
    \E i \in 1..(Len(s) - Len(p) + 1) : SubSeq(s, i, i + Len(p) - 1) = p

P_2026 ==
    <<"2","0","2","6">>

P_SOFTWARE_ENGINEER ==
    <<"s","o","f","t","w","a","r","e"," ","e","n","g","i","n","e","e","r">>

P_SOFTWARE_ENGINEERING ==
    <<"s","o","f","t","w","a","r","e"," ","e","n","g","i","n","e","e","r","i","n","g">>

P_SWE ==
    <<" ","s","w","e"," ">>

\* The graduate token cut down to "grad".
P_GRADUATE_Grad ==
    <<"g","r","a","d">>

P_GRADUATE ==
    <<"g","r","a","d","u","a","t","e">>

\* matches_target with "swe" looked for anywhere in the title, not between
\* blanks.
matches_target_chars_Substring(title) ==
    LET t == lower(title)
    IN  /\ Contains(t, P_2026)
        /\ \/ Contains(t, P_SOFTWARE_ENGINEER)
           \/ Contains(t, P_SOFTWARE_ENGINEERING)
           \/ Contains(t, <<"s","w","e">>)
           \/ Contains(t, P_GRADUATE)

\* matches_target(title): "2026" and (software engineer(ing) or " swe " or
\* "graduate"), on the characters of the title.
matches_target_chars(title) ==
    LET t == lower(title)
        has_2026 == Contains(t, P_2026)
        has_sweish == \/ Contains(t, P_SOFTWARE_ENGINEER)
                      \/ Contains(t, P_SOFTWARE_ENGINEERING)
                      \/ Contains(<<" ">> \o t \o <<" ">>, P_SWE)
        has_graduate == Contains(t, P_GRADUATE)
    IN  has_2026 /\ (has_sweish \/ has_graduate)

\* matches_msft_test_se(title): the --msft-test-se policy, on the characters.
matches_msft_test_se_chars(title) == Contains(lower(title), P_SOFTWARE_ENGINEERING)

\* in_allowed_window(now_pt): 5:00 to 23:00, the time of day in minutes.
in_allowed_window(now) == (5 * 60) =< now /\ now =< (23 * 60)

\* Times of day datetime.now(TZ) is drawn from: both edges of the window and
\* the minute outside each.
Clock == {(5 * 60) - 1, 5 * 60, 12 * 60, 23 * 60, (23 * 60) + 1}

(***************************************************************************)
(* The sites.  A job is what the fetch functions return: {title, url},     *)
(* with the url already made absolute and unique within one fetch.         *)
(***************************************************************************)
T_SWE_NEW_GRAD == "2026 Software Engineer New Grad"

T_WRONG_YEAR == "2025 Software Engineer"

T_GRADUATE == "University Graduate 2026"

T_SE_INTERN == "Software Engineering Intern"

T_NEWSWEEK == "Newsweek Editorial Intern"

T_NEW_GRAD_PROGRAM == "2026 Data Analyst, New Grad Program"

T_NEW_GRADUATE_PROGRAM == "2026 Data Analyst, New Graduate Program"

\* A string that is no url, as a state file may hold one.
S_SEEN == "seen"

\* The characters of a string (a TLA+ string is atomic: this table spells out
\* the titles of the catalogue and the strings a state file is tried with).
Chars(title) ==
    CASE title = T_SWE_NEW_GRAD ->
           <<"2","0","2","6"," ","S","o","f","t","w","a","r","e"," ","E","n","g","i","n","e","e","r"," ","N","e","w"," ","G","r","a","d">>
      [] title = T_WRONG_YEAR ->
           <<"2","0","2","5"," ","S","o","f","t","w","a","r","e"," ","E","n","g","i","n","e","e","r">>
      [] title = T_GRADUATE ->
           <<"U","n","i","v","e","r","s","i","t","y"," ","G","r","a","d","u","a","t","e"," ","2","0","2","6">>
      [] title = T_SE_INTERN ->
           <<"S","o","f","t","w","a","r","e"," ","E","n","g","i","n","e","e","r","i","n","g"," ","I","n","t","e","r","n">>
      [] title = T_NEWSWEEK ->
           <<"N","e","w","s","w","e","e","k"," ","E","d","i","t","o","r","i","a","l"," ","I","n","t","e","r","n">>
      [] title = T_NEW_GRAD_PROGRAM ->
           <<"2","0","2","6"," ","D","a","t","a"," ","A","n","a","l","y","s","t",","," ","N","e","w"," ","G","r","a","d"," ","P","r","o","g","r","a","m">>
      [] title = T_NEW_GRADUATE_PROGRAM ->
           <<"2","0","2","6"," ","D","a","t","a"," ","A","n","a","l","y","s","t",","," ","N","e","w"," ","G","r","a","d","u","a","t","e"," ","P","r","o","g","r","a","m">>
      [] title = S_SEEN ->
           <<"s","e","e","n">>
      [] title = "https://www.uber.com/careers/list/101" ->
           <<"h","t","t","p","s",":","/","/","w","w","w",".","u","b","e","r",".","c","o","m","/","c","a","r","e","e","r","s","/","l","i","s","t","/","1","0","1">>

matches_target(title) == matches_target_chars(Chars(title))

matches_msft_test_se(title) == matches_msft_test_se_chars(Chars(title))

Sources == {"uber", "msft"}

\* The urls in the order sorted() gives them (lexicographic on the strings).
UrlOrder ==
    << "https://jobs.careers.microsoft.com/global/en/job/201",
       "https://jobs.careers.microsoft.com/global/en/job/202",
       "https://www.uber.com/careers/list/101",
       "https://www.uber.com/careers/list/102",
       "https://www.uber.com/careers/list/103" >>

Urls == {UrlOrder[i] : i \in DOMAIN UrlOrder}

Job(title, url) == [title |-> title, url |-> url]

\* The postings a site may be serving.
Catalogue(s) ==
    IF s = "uber"
    THEN { Job(T_SWE_NEW_GRAD, "https://www.uber.com/careers/list/101"),
           Job(T_GRADUATE,     "https://www.uber.com/careers/list/102"),
           Job(T_WRONG_YEAR,   "https://www.uber.com/careers/list/103") }
    ELSE { Job(T_SWE_NEW_GRAD, "https://jobs.careers.microsoft.com/global/en/job/201"),
           Job(T_SE_INTERN,    "https://jobs.careers.microsoft.com/global/en/job/202") }

\* Listings of at most MaxJobs postings with pairwise distinct urls (the fetch
\* functions drop an href they have already collected).
ListingsOf(s) ==
    { l \in UNION { [1..n -> Catalogue(s)] : n \in 0..MaxJobs } :
        \A i, j \in DOMAIN l : i # j => l[i].url # l[j].url }

Listings == [s \in Sources |-> ListingsOf(s)]

SiteStates ==
    { f \in [Sources -> UNION { Listings[s] : s \in Sources }] :
        \A s \in Sources : f[s] \in Listings[s] }

UrlsOf(jobs_) == { jobs_[i].url : i \in DOMAIN jobs_ }

(***************************************************************************)
(* The state files.  A file is absent, unreadable, or holds a text.  A     *)
(* text is a sequence of JSON lexemes: the punctuation [ ] , { } : (as     *)
(* json.dumps writes it, with the blank after , and :), the number 0, and  *)
(* string literals: every other lexeme s stands for the literal "s".       *)
(***************************************************************************)
SEEN_UBER == "seen_uber.json"
SEEN_MSFT == "seen_msft.json"
SEEN_PATH == "seen_jobs.json"

Paths == {SEEN_UBER, SEEN_MSFT, SEEN_PATH}

NoFile == [kind |-> "absent", json |-> <<>>]

\* A file that exists and whose read_text() raises (no permission, a
\* directory, bytes that are not UTF-8).
Unreadable == [kind |-> "unreadable", json |-> <<>>]

TextFile(text) == [kind |-> "text", json |-> text]

\* sorted(seen_set): the urls of the set in increasing order.
RECURSIVE sorted_from(_, _)
sorted_from(i, seen_set) ==
    IF i > Len(UrlOrder) THEN <<>>
    ELSE (IF UrlOrder[i] \in seen_set THEN <<UrlOrder[i]>> ELSE <<>>)
         \o sorted_from(i + 1, seen_set)

sorted(seen_set) == sorted_from(1, seen_set)

JsonPunctuation == {"[", "]", ",", "{", "}", ":"}

JsonNumbers == {"0"}

IsScalar(tok) == tok \notin JsonPunctuation

IsStringLiteral(tok) == tok \notin (JsonPunctuation \cup JsonNumbers)

\* json.dumps(l) of a list of strings: ["a", "b"].
RECURSIVE dumps_items(_, _)
dumps_items(l, i) ==
    IF i > Len(l) THEN <<>>
    ELSE (IF i > 1 THEN <<",">> ELSE <<>>) \o <<l[i]>> \o dumps_items(l, i + 1)

json_dumps(l) == <<"[">> \o dumps_items(l, 1) \o <<"]">>

\* The JSON grammar on lexemes.  json_value(t, i) is the index after the
\* value that starts at t[i], or 0 when no value starts there.
RECURSIVE json_value(_, _)
RECURSIVE json_elements(_, _)
RECURSIVE json_members(_, _)
json_value(t, i) ==
    IF i > Len(t) THEN 0
    ELSE IF IsScalar(t[i]) THEN i + 1
    ELSE IF t[i] = "[" THEN
         (IF i + 1 =< Len(t) /\ t[i + 1] = "]" THEN i + 2 ELSE json_elements(t, i + 1))
    ELSE IF t[i] = "{" THEN
         (IF i + 1 =< Len(t) /\ t[i + 1] = "}" THEN i + 2 ELSE json_members(t, i + 1))
    ELSE 0

json_elements(t, i) ==
    LET j == json_value(t, i) IN
    IF j = 0 \/ j > Len(t) THEN 0
    ELSE IF t[j] = "]" THEN j + 1
    ELSE IF t[j] = "," THEN json_elements(t, j + 1)
    ELSE 0

json_members(t, i) ==
    IF i + 1 > Len(t) THEN 0
    ELSE IF ~IsStringLiteral(t[i]) \/ t[i + 1] # ":" THEN 0
    ELSE LET j == json_value(t, i + 2) IN
         IF j = 0 \/ j > Len(t) THEN 0
         ELSE IF t[j] = "}" THEN j + 1
         ELSE IF t[j] = "," THEN json_members(t, j + 1)
         ELSE 0

\* The first lexeme of each element of the array that opens before t[i].
RECURSIVE list_items(_, _)
list_items(t, i) ==
    IF t[i] = "]" THEN <<>>
    ELSE LET j == json_value(t, i) IN
         <<t[i]>> \o (IF t[j] = "," THEN list_items(t, j + 1) ELSE <<>>)

\* The keys of the object that opens before t[i].
RECURSIVE dict_keys(_, _)
dict_keys(t, i) ==
    IF t[i] = "}" THEN <<>>
    ELSE LET j == json_value(t, i + 2) IN
         <<t[i]>> \o (IF t[j] = "," THEN dict_keys(t, j + 1) ELSE <<>>)

\* json.loads(text): the type of the value and what iterating it yields (the
\* elements of a list, the characters of a str, the keys of a dict), or the
\* JSONDecodeError.  `hashable` is FALSE when an element is a list or a dict.
json_loads(t) ==
    IF json_value(t, 1) # Len(t) + 1
    THEN [type |-> "JSONDecodeError", items |-> <<>>, hashable |-> TRUE]
    ELSE IF t[1] = "["
    THEN LET l == list_items(t, 2) IN
         [type |-> "list", items |-> l,
          hashable |-> \A k \in DOMAIN l : IsScalar(l[k])]
    ELSE IF t[1] = "{"
    THEN [type |-> "dict", items |-> dict_keys(t, 2), hashable |-> TRUE]
    ELSE IF t[1] \in JsonNumbers
    THEN [type |-> "int", items |-> <<>>, hashable |-> TRUE]
    ELSE [type |-> "str", items |-> Chars(t[1]), hashable |-> TRUE]

\* load_seen that takes every file for unreadable.
load_seen_Empty(file) == {}

\* load_seen(path): set(json.loads(path.read_text())) of a file that exists,
\* set() when that raises (read_text, json.loads, or set() of an int or of
\* unhashable elements), set() when the file does not exist.
load_seen(file) ==
    IF file.kind = "absent" THEN {}
    ELSE IF file.kind = "unreadable" THEN {}
    ELSE LET v == json_loads(file.json) IN
         IF v.type \in {"list", "str", "dict"} /\ v.hashable
         THEN { v.items[i] : i \in DOMAIN v.items }
         ELSE {}

\* open(path, "w"): the file exists and is empty.
open_w(file) == TextFile(<<>>)

\* f.write(text) at offset 0 of the file: what lay beyond the text stays.
write_at(file, text) ==
    TextFile(text \o SubSeq(file.json, Len(text) + 1, Len(file.json)))

\* How a write_text call may end: all of the text written; open() raising
\* (nothing touched); the write raising after `written` lexemes; the process
\* killed after `written` lexemes.  Only "ok" without the "write" fault.
WriteOutcomes(text, faults_) ==
    { [result |-> "ok", written |-> Len(text)] }
    \cup (IF "write" \in faults_
          THEN { [result |-> "open_failed", written |-> 0] }
               \cup { [result |-> r, written |-> k] :
                        r \in {"write_failed", "interrupted"}, k \in 0..(Len(text) - 1) }
          ELSE {})

\* path.write_text(text) ending with outcome o.
write_text(file, text, o) ==
    IF o.result = "open_failed" THEN file
    ELSE write_at(open_w(file), SubSeq(text, 1, o.written))

\* save_seen(path, seen_set): path.write_text(json.dumps(sorted(seen_set))).
save_seen(file, seen_set, o) == write_text(file, json_dumps(sorted(seen_set)), o)

\* The warning save_seen prints to stderr when write_text raised.
Warn(path) == [warn |-> "failed to save", path |-> path]

(***************************************************************************)
(* The mail.  send_email reads the SMTP settings from the environment when *)
(* it is called, and raises when one of the three is missing or when the   *)
(* SMTP session fails.                                                     *)
(***************************************************************************)
Environments == [SMTP_USER : BOOLEAN, SMTP_PASS : BOOLEAN, TO_EMAIL : BOOLEAN]

\* send_email(subject, body) under environment e: what the call ends with.
send_email(e, smtp_ok) ==
    IF ~(e.SMTP_USER /\ e.SMTP_PASS /\ e.TO_EMAIL) THEN "RuntimeError"
    ELSE IF smtp_ok THEN "sent"
    ELSE "SMTPException"

\* The de-dupe left out: every match counts as new.
diff_new_All(ms, seen_set) == ms

\* The de-dupe of main(): [j for j in matches if j["url"] not in seen].
diff_new(ms, seen_set) == SelectSeq(ms, LAMBDA j : j.url \notin seen_set)

\* [j for j in jobs if matches(j["title"])] under the policy of the run.
filter_targets(js) == SelectSeq(js, LAMBDA j : matches_target(j.title))

filter_msft(js, msft_test_se) ==
    IF msft_test_se
    THEN SelectSeq(js, LAMBDA j : matches_msft_test_se(j.title))
    ELSE SelectSeq(js, LAMBDA j : matches_target(j.title))

\* The sent urls replace the seen set instead of joining it.
add_urls_Replace(seen_set, sent) == UrlsOf(sent)

\* for j in send: seen.add(j["url"])
add_urls(seen_set, sent) == seen_set \cup UrlsOf(sent)

\* The body of the digest of watch_all.py: one section per source that has
\* something to send, Uber first.
email_body(send_uber, send_msft, msft_test_se) ==
    (IF send_uber # <<>>
     THEN << [header |-> "Uber Jobs:", items |-> send_uber] >> ELSE <<>>)
    \o
    (IF send_msft # <<>>
     THEN << [header |-> IF msft_test_se
                         THEN "Microsoft Jobs (test: 'software engineering')"
                         ELSE "Microsoft Jobs:",
              items |-> send_msft] >>
     ELSE <<>>)

\* The subject of the digest of watch_all.py: the total and the per-site counts.
email_subject(send_uber, send_msft) ==
    << "[Job Watch]", Len(send_uber) + Len(send_msft), Len(send_uber), Len(send_msft) >>

(***************************************************************************)
(* State.                                                                  *)
(***************************************************************************)
VARIABLES
    prog,       \* the script the behaviour runs: "watch_all" or "watch_uber"
    site,       \* site[s]: the listing source s serves now
    files,      \* files[p]: the state file at path p
    pc,         \* where main() is: "idle" between invocations
    args,       \* the parsed command line of the invocation
    environ,    \* the environments the process may still turn out to have
    jobs,       \* jobs[s]: what the fetch of s returned in this run
    matches,    \* matches[s]: the jobs of s the policy selects
    seen,       \* seen[s]: the in-memory seen set of s
    send,       \* send[s]: the new matches of s (send_uber, send_msft, new_matches)
    calls,      \* the send_email calls of this run, in order
    exc,        \* the exception main() ended with, "none" so far
    fetched,    \* fetched[s]: "no", "ok" or "raised" in this run
    loaded,     \* load_seen was called in this run
    files0,     \* the state files when the run started
    observe,    \* which record of the past the behaviour keeps (see Observers)
    delivered,  \* delivered[s]: urls of the digests the SMTP server accepted
    prevRun,    \* summary of the previous run, while the sites have not changed
    faults,     \* the faults the outside world may inject (see Faults)
    stderr,     \* the warnings the run has printed to stderr
    procs,      \* procs[i]: invocation i of the store steps run side by side
    unit        \* one function of the scripts called on its own (see NoUnit)

\* The state of the specifications that run two invocations side by side, or
\* one function on its own; the runs of main() leave it alone.
bench == << procs, unit >>

\* The state of the runs of main().
main ==
    << prog, site, files, pc, args, environ, jobs, matches, seen, send, calls,
       exc, fetched, loaded, files0, observe, delivered, prevRun, faults,
       stderr >>

vars ==
    << prog, site, files, pc, args, environ, jobs, matches, seen, send, calls,
       exc, fetched, loaded, files0, observe, delivered, prevRun, faults,
       stderr, procs, unit >>

Programs == {"watch_all", "watch_uber"}

\* The sources a script watches, and the state file of each.
SourcesOf(p) == IF p = "watch_all" THEN {"uber", "msft"} ELSE {"uber"}

PathOf(p, s) ==
    IF p = "watch_uber" THEN SEEN_PATH
    ELSE IF s = "uber" THEN SEEN_UBER ELSE SEEN_MSFT

PathsOf(p) == { PathOf(p, s) : s \in SourcesOf(p) }

\* argparse: watch_uber.py has no --msft-test-se.  --ignore-window is read
\* once, by the window step, and is drawn there.
ArgsOf(p) ==
    { a \in [test_email : BOOLEAN, send_all_now : BOOLEAN, msft_test_se : BOOLEAN] :
        p = "watch_uber" => ~a.msft_test_se }

NoArgs == [test_email |-> FALSE, send_all_now |-> FALSE, msft_test_se |-> FALSE]

NoJobs == [s \in Sources |-> <<>>]
NoSeen == [s \in Sources |-> {}]
NotFetched == [s \in Sources |-> "no"]
NoPrevRun == [kind |-> "none", msft_test_se |-> FALSE]

\* What the outside world may do to a run beyond failing a navigation or a
\* mail:
\*   "write":  write_text fails, or the process is killed inside it;
\*   "render": a page does not render its listings within the selector
\*             timeouts.
Faults == {"write", "render"}

NoProcs == <<>>

\* No function is being called on its own.
NoUnit == [fn |-> "none"]

\* The records of the past are not state of the scripts and never influence
\* them.  A behaviour keeps one of them:
\*   "previous_run": prevRun, what the run before this one was;
\*   "every_send":   delivered, the urls of every accepted digest;
\*   "normal_sends": delivered, the urls of the accepted digests of the runs
\*                   without --send-all-now.
Observers == {"previous_run", "every_send", "normal_sends"}

\* No state file yet.
NoFiles == [p \in Paths |-> NoFile]

\* Before an invocation: the state files one of `stores`, the sites serving
\* anything.
MainInit(observers, stores, fault_sets) ==
    /\ observe \in observers
    /\ prog \in Programs
    /\ site \in { f \in SiteStates : \A s \in Sources \ SourcesOf(prog) : f[s] = <<>> }
    /\ files \in { f \in stores : \A p \in Paths \ PathsOf(prog) : f[p] = NoFile }
    /\ pc = "idle"
    /\ args = NoArgs
    /\ environ = Environments
    /\ jobs = NoJobs
    /\ matches = NoJobs
    /\ seen = NoSeen
    /\ send = NoJobs
    /\ calls = <<>>
    /\ exc = "none"
    /\ fetched = NotFetched
    /\ loaded = FALSE
    /\ files0 = files
    /\ delivered = NoSeen
    /\ prevRun = NoPrevRun
    /\ faults \in fault_sets
    /\ stderr = <<>>

\* Before the first invocation, with nothing injected.
InitObserving(observers) ==
    /\ MainInit(observers, {NoFiles}, {{}})
    /\ procs = NoProcs
    /\ unit = NoUnit

Init == InitObserving(Observers)

\* The same, keeping no record of the past.
InitCrash == InitObserving({"nothing"})

(***************************************************************************)
(* Steps shared by the two scripts.                                        *)
(***************************************************************************)
\* main() returns / main() ends with exception e.
Return == pc' = "done" /\ exc' = "none"
Raise(e) == pc' = "done" /\ exc' = e

\* The record of one send_email call.
Call(kind, subject, body, result) ==
    [kind |-> kind, subject |-> subject, body |-> body, result |-> result]

\* The urls of an accepted digest join the delivered ones.
Deliver(sent) ==
    IF \/ observe = "every_send"
       \/ observe = "normal_sends" /\ ~args.send_all_now
    THEN [s \in Sources |-> delivered[s] \cup UrlsOf(sent[s])]
    ELSE delivered

\* What a fetch of source s ends with: the listing the site serves, or the
\* exception of page.goto (a navigation timeout, a transport failure).
FetchOutcomes == {"ok", "raised"}

FetchResult(s, outcome) == IF outcome = "ok" THEN site[s] ELSE <<>>

\* With the "render" fault a fetch may also end "timed_out": no selector
\* showed up within its timeout (the PWTimeout is caught and dropped), or
\* not on every Microsoft page (`if not hydrated: continue`), and the fetch
\* returns the listings the browser held by then, fewer than the site has.
RenderOutcomes(s) ==
    IF "render" \in faults /\ site[s] # <<>> THEN {"timed_out"} ELSE {}

\* The fetch returns listing l of source s, having ended with outcome o.
Fetched(s, o, l) ==
    /\ fetched' = [fetched EXCEPT ![s] = o]
    /\ jobs' = [jobs EXCEPT ![s] = l]

\* Save without the try/except of save_seen: the exception of write_text
\* leaves main().
Save_Uncaught(path, seen_set, after) ==
    \E o \in WriteOutcomes(json_dumps(sorted(seen_set)), faults) :
        /\ files' = [files EXCEPT ![path] = save_seen(@, seen_set, o)]
        /\ stderr' = stderr
        /\ IF o.result = "interrupted" THEN Raise("killed")
           ELSE IF o.result \in {"open_failed", "write_failed"} THEN Raise("OSError")
           ELSE IF after = "return" THEN Return
           ELSE pc' = after /\ UNCHANGED exc

\* save_seen(path, seen_set) as a statement of main(): the warning is printed
\* when write_text raised, and main() goes on to `after`; a kill inside
\* write_text ends the process there.
Save(path, seen_set, after) ==
    \E o \in WriteOutcomes(json_dumps(sorted(seen_set)), faults) :
        /\ files' = [files EXCEPT ![path] = save_seen(@, seen_set, o)]
        /\ stderr' = IF o.result \in {"open_failed", "write_failed"}
                     THEN Append(stderr, Warn(path))
                     ELSE stderr
        /\ IF o.result = "interrupted" THEN Raise("killed")
           ELSE IF after = "return" THEN Return
           ELSE pc' = after /\ UNCHANGED exc

\* The script is started: argparse.
Invoke ==
    /\ pc = "idle"
    /\ \E a \in ArgsOf(prog) : args' = a
    /\ pc' = "test_email"
    /\ UNCHANGED << prog, site, files, environ, jobs, matches, seen, send, calls,
                    exc, fetched, loaded, files0, observe, delivered, prevRun,
                    faults, stderr, bench >>

\* The process has ended: the next invocation starts from fresh locals.
Finish ==
    /\ pc = "done"
    /\ pc' = "idle"
    /\ prevRun' =
         IF /\ observe = "previous_run"
            /\ exc = "none"
            /\ \A s \in SourcesOf(prog) : fetched[s] = "ok"
         THEN [kind |-> IF args.send_all_now THEN "force" ELSE "normal",
               msft_test_se |-> args.msft_test_se]
         ELSE NoPrevRun
    /\ args' = NoArgs
    /\ environ' = Environments
    /\ jobs' = NoJobs
    /\ matches' = NoJobs
    /\ seen' = NoSeen
    /\ send' = NoJobs
    /\ calls' = <<>>
    /\ exc' = "none"
    /\ fetched' = NotFetched
    /\ loaded' = FALSE
    /\ files0' = files
    /\ stderr' = <<>>
    /\ UNCHANGED << prog, site, files, observe, delivered, faults, bench >>

\* Between two invocations a watched site posts or withdraws listings.
SiteChange ==
    /\ pc = "idle"
    /\ \E s \in SourcesOf(prog) : \E l \in Listings[s] :
          /\ l # site[s]
          /\ site' = [site EXCEPT ![s] = l]
    /\ prevRun' = NoPrevRun
    /\ UNCHANGED << prog, files, pc, args, environ, jobs, matches, seen, send,
                    calls, exc, fetched, loaded, files0, observe, delivered,
                    faults, stderr, bench >>

(***************************************************************************)
(* watch_all.py, main()                                                    *)
(***************************************************************************)
\* if args.test_email: send the test mail and return.
WatchAll_TestEmail ==
    /\ prog = "watch_all" /\ pc = "test_email"
    /\ IF args.test_email
       THEN \E e \in environ : \E smtp_ok \in BOOLEAN :
              LET r == send_email(e, smtp_ok) IN
              /\ calls' = Append(calls, Call("test", "[Job Watch] TEST",
                                   "SMTP works. Watching Uber + Microsoft.", r))
              /\ environ' = IF r = "sent" THEN {e} ELSE environ
              /\ IF r = "sent" THEN Return ELSE Raise(r)
       ELSE /\ pc' = "window"
            /\ UNCHANGED << calls, environ, exc >>
    /\ UNCHANGED << prog, site, files, args, jobs, matches, seen, send,
                    fetched, loaded, files0, observe, delivered, prevRun,
                    faults, stderr, bench >>

\* The time-of-day gate.
WatchAll_Window ==
    /\ prog = "watch_all" /\ pc = "window"
    /\ \E ignore_window \in BOOLEAN : \E now \in Clock :
          IF ~ignore_window /\ ~in_allowed_window(now)
          THEN Return
          ELSE pc' = "fetch_uber" /\ UNCHANGED exc
    /\ UNCHANGED << prog, site, files, args, environ, jobs, matches, seen, send,
                    calls, fetched, loaded, files0, observe, delivered, prevRun,
                    faults, stderr, bench >>

\* uber_jobs = fetch_uber_with_playwright()
WatchAll_FetchUber ==
    /\ prog = "watch_all" /\ pc = "fetch_uber"
    /\ \E o \in FetchOutcomes \cup RenderOutcomes("uber") :
          IF o = "raised"
          THEN /\ fetched' = [fetched EXCEPT !["uber"] = "raised"]
               /\ Raise("PlaywrightError")
               /\ UNCHANGED jobs
          ELSE IF o = "timed_out"
          THEN /\ \E k \in 0..(Len(site["uber"]) - 1) :
                     Fetched("uber", o, SubSeq(site["uber"], 1, k))
               /\ pc' = "fetch_msft"
               /\ UNCHANGED exc
          ELSE /\ Fetched("uber", o, FetchResult("uber", o))
               /\ pc' = "fetch_msft"
               /\ UNCHANGED exc
    /\ UNCHANGED << prog, site, files, args, environ, matches, seen, send,
                    calls, loaded, files0, observe, delivered, prevRun,
                    faults, stderr, bench >>

\* msft_jobs = fetch_msft_with_playwright(pages=args.msft_pages)
WatchAll_FetchMsft ==
    /\ prog = "watch_all" /\ pc = "fetch_msft"
    /\ \E o \in FetchOutcomes \cup RenderOutcomes("msft") :
          IF o = "raised"
          THEN /\ fetched' = [fetched EXCEPT !["msft"] = "raised"]
               /\ Raise("PlaywrightError")
               /\ UNCHANGED jobs
          ELSE IF o = "timed_out"
          THEN /\ \E k \in 0..(Len(site["msft"]) - 1) :
                     Fetched("msft", o, SubSeq(site["msft"], 1, k))
               /\ pc' = "filter"
               /\ UNCHANGED exc
          ELSE /\ Fetched("msft", o, FetchResult("msft", o))
               /\ pc' = "filter"
               /\ UNCHANGED exc
    /\ UNCHANGED << prog, site, files, args, environ, matches, seen, send,
                    calls, loaded, files0, observe, delivered, prevRun,
                    faults, stderr, bench >>

\* filter: uber_matches, msft_matches
WatchAll_Filter ==
    /\ prog = "watch_all" /\ pc = "filter"
    /\ matches' = [s \in Sources |->
                     IF s = "uber" THEN filter_targets(jobs["uber"])
                     ELSE filter_msft(jobs["msft"], args.msft_test_se)]
    /\ pc' = "load"
    /\ UNCHANGED << prog, site, files, args, environ, jobs, seen, send, calls,
                    exc, fetched, loaded, files0, observe, delivered, prevRun,
                    faults, stderr, bench >>

\* seen_uber = load_seen(SEEN_UBER); seen_msft = load_seen(SEEN_MSFT)
WatchAll_Load ==
    /\ prog = "watch_all" /\ pc = "load"
    /\ seen' = [s \in Sources |-> load_seen(files[PathOf("watch_all", s)])]
    /\ loaded' = TRUE
    /\ pc' = "diff"
    /\ UNCHANGED << prog, site, files, args, environ, jobs, matches, send, calls,
                    exc, fetched, files0, observe, delivered, prevRun,
                    faults, stderr, bench >>

\* send_uber, send_msft; nothing to send: return.
WatchAll_Diff ==
    /\ prog = "watch_all" /\ pc = "diff"
    /\ LET new == [s \in Sources |->
                     IF args.send_all_now THEN matches[s]
                     ELSE diff_new(matches[s], seen[s])]
       IN  /\ send' = new
           /\ IF new["uber"] = <<>> /\ new["msft"] = <<>>
              THEN Return
              ELSE pc' = "send" /\ UNCHANGED exc
    /\ UNCHANGED << prog, site, files, args, environ, jobs, matches, seen, calls,
                    fetched, loaded, files0, observe, delivered, prevRun,
                    faults, stderr, bench >>

\* WatchAll_Send with the exception of send_email swallowed: main() goes on
\* to persist.
WatchAll_Send_Swallow ==
    /\ prog = "watch_all" /\ pc = "send"
    /\ \E e \in environ : \E smtp_ok \in BOOLEAN :
          LET r == send_email(e, smtp_ok) IN
          /\ calls' = Append(calls,
                 Call("digest", email_subject(send["uber"], send["msft"]),
                      email_body(send["uber"], send["msft"], args.msft_test_se), r))
          /\ environ' = IF r = "sent" THEN {e} ELSE environ
          /\ pc' = "merge"
          /\ delivered' = IF r = "sent" THEN Deliver(send) ELSE delivered
    /\ UNCHANGED << prog, site, files, args, jobs, matches, seen, send, exc,
                    fetched, loaded, files0, observe, prevRun,
                    faults, stderr, bench >>

\* send_email(subject, body): one digest for the two sites.
WatchAll_Send ==
    /\ prog = "watch_all" /\ pc = "send"
    /\ \E e \in environ : \E smtp_ok \in BOOLEAN :
          LET r == send_email(e, smtp_ok) IN
          /\ calls' = Append(calls,
                 Call("digest", email_subject(send["uber"], send["msft"]),
                      email_body(send["uber"], send["msft"], args.msft_test_se), r))
          /\ environ' = IF r = "sent" THEN {e} ELSE environ
          /\ IF r = "sent"
             THEN pc' = "merge" /\ delivered' = Deliver(send) /\ UNCHANGED exc
             ELSE Raise(r) /\ UNCHANGED delivered
    /\ UNCHANGED << prog, site, files, args, jobs, matches, seen, send,
                    fetched, loaded, files0, observe, prevRun,
                    faults, stderr, bench >>

\* for j in send_uber: seen_uber.add(...); for j in send_msft: seen_msft.add(...)
WatchAll_Merge ==
    /\ prog = "watch_all" /\ pc = "merge"
    /\ seen' = [s \in Sources |-> add_urls(seen[s], send[s])]
    /\ pc' = "save_uber"
    /\ UNCHANGED << prog, site, files, args, environ, jobs, matches, send, calls,
                    exc, fetched, loaded, files0, observe, delivered, prevRun,
                    faults, stderr, bench >>

\* save_seen(SEEN_UBER, seen_uber)
WatchAll_SaveUber ==
    /\ prog = "watch_all" /\ pc = "save_uber"
    /\ Save(SEEN_UBER, seen["uber"], "save_msft")
    /\ UNCHANGED << prog, site, args, environ, jobs, matches, seen, send, calls,
                    fetched, loaded, files0, observe, delivered, prevRun,
                    faults, bench >>

\* save_seen(SEEN_MSFT, seen_msft), the last statement of main().
WatchAll_SaveMsft ==
    /\ prog = "watch_all" /\ pc = "save_msft"
    /\ Save(SEEN_MSFT, seen["msft"], "return")
    /\ UNCHANGED << prog, site, args, environ, jobs, matches, seen, send, calls,
                    fetched, loaded, files0, observe, delivered, prevRun,
                    faults, bench >>

WatchAll ==
    \/ WatchAll_TestEmail
    \/ WatchAll_Window
    \/ WatchAll_FetchUber
    \/ WatchAll_FetchMsft
    \/ WatchAll_Filter
    \/ WatchAll_Load
    \/ WatchAll_Diff
    \/ WatchAll_Send
    \/ WatchAll_Merge
    \/ WatchAll_SaveUber
    \/ WatchAll_SaveMsft

(***************************************************************************)
(* watch_uber.py, main()                                                   *)
(***************************************************************************)
\* if args.test_email: send the test mail; main() goes on after it.
WatchUber_TestEmail ==
    /\ prog = "watch_uber" /\ pc = "test_email"
    /\ IF args.test_email
       THEN \E e \in environ : \E smtp_ok \in BOOLEAN :
              LET r == send_email(e, smtp_ok) IN
              /\ calls' = Append(calls, Call("test", "[Uber Watch] TEST",
                     "SMTP works. Monitoring for 2026 + (SWE or Graduate).", r))
              /\ environ' = IF r = "sent" THEN {e} ELSE environ
              /\ IF r = "sent" THEN pc' = "window" /\ UNCHANGED exc ELSE Raise(r)
       ELSE /\ pc' = "window"
            /\ UNCHANGED << calls, environ, exc >>
    /\ UNCHANGED << prog, site, files, args, jobs, matches, seen, send,
                    fetched, loaded, files0, observe, delivered, prevRun,
                    faults, stderr, bench >>

\* The time-of-day gate.
WatchUber_Window ==
    /\ prog = "watch_uber" /\ pc = "window"
    /\ \E ignore_window \in BOOLEAN : \E now \in Clock :
          IF ~ignore_window /\ ~in_allowed_window(now)
          THEN Return
          ELSE pc' = "fetch" /\ UNCHANGED exc
    /\ UNCHANGED << prog, site, files, args, environ, jobs, matches, seen, send,
                    calls, fetched, loaded, files0, observe, delivered, prevRun,
                    faults, stderr, bench >>

\* jobs = fetch_roles()
WatchUber_Fetch ==
    /\ prog = "watch_uber" /\ pc = "fetch"
    /\ \E o \in FetchOutcomes \cup RenderOutcomes("uber") :
          IF o = "raised"
          THEN /\ fetched' = [fetched EXCEPT !["uber"] = "raised"]
               /\ Raise("PlaywrightError")
               /\ UNCHANGED jobs
          ELSE IF o = "timed_out"
          THEN /\ \E k \in 0..(Len(site["uber"]) - 1) :
                     Fetched("uber", o, SubSeq(site["uber"], 1, k))
               /\ pc' = "filter"
               /\ UNCHANGED exc
          ELSE /\ Fetched("uber", o, FetchResult("uber", o))
               /\ pc' = "filter"
               /\ UNCHANGED exc
    /\ UNCHANGED << prog, site, files, args, environ, matches, seen, send,
                    calls, loaded, files0, observe, delivered, prevRun,
                    faults, stderr, bench >>

\* matches = filter_targets(jobs)
WatchUber_Filter ==
    /\ prog = "watch_uber" /\ pc = "filter"
    /\ matches' = [matches EXCEPT !["uber"] = filter_targets(jobs["uber"])]
    /\ pc' = "branch"
    /\ UNCHANGED << prog, site, files, args, environ, jobs, seen, send, calls,
                    exc, fetched, loaded, files0, observe, delivered, prevRun,
                    faults, stderr, bench >>

\* if args.send_all_now: mail every match (the one-time dump) and return.
WatchUber_Dump ==
    /\ prog = "watch_uber" /\ pc = "branch"
    /\ args.send_all_now
    /\ IF matches["uber"] # <<>>
       THEN \E e \in environ : \E smtp_ok \in BOOLEAN :
              LET r == send_email(e, smtp_ok) IN
              /\ calls' = Append(calls,
                     Call("digest",
                          << "[Uber Watch] (one-time dump)", Len(matches["uber"]) >>,
                          << [header |-> "All current 2026 SWE/Graduate roles:",
                              items |-> matches["uber"]] >>, r))
              /\ environ' = IF r = "sent" THEN {e} ELSE environ
              /\ IF r = "sent"
                 THEN Return /\ delivered' = Deliver(matches)
                 ELSE Raise(r) /\ UNCHANGED delivered
       ELSE Return /\ UNCHANGED << calls, environ, delivered >>
    /\ UNCHANGED << prog, site, files, args, jobs, matches, seen, send,
                    fetched, loaded, files0, observe, prevRun,
                    faults, stderr, bench >>

\* if not matches: return
WatchUber_Matches ==
    /\ prog = "watch_uber" /\ pc = "branch"
    /\ ~args.send_all_now
    /\ IF matches["uber"] = <<>>
       THEN Return
       ELSE pc' = "load" /\ UNCHANGED exc
    /\ UNCHANGED << prog, site, files, args, environ, jobs, matches, seen, send,
                    calls, fetched, loaded, files0, observe, delivered, prevRun,
                    faults, stderr, bench >>

\* seen = load_seen(); new_matches; nothing new: return.
WatchUber_Load ==
    /\ prog = "watch_uber" /\ pc = "load"
    /\ LET seen_set == load_seen(files[SEEN_PATH])
           new_matches == diff_new(matches["uber"], seen_set)
       IN  /\ seen' = [seen EXCEPT !["uber"] = seen_set]
           /\ send' = [send EXCEPT !["uber"] = new_matches]
           /\ IF new_matches = <<>>
              THEN Return
              ELSE pc' = "send" /\ UNCHANGED exc
    /\ loaded' = TRUE
    /\ UNCHANGED << prog, site, files, args, environ, jobs, matches, calls,
                    fetched, files0, observe, delivered, prevRun,
                    faults, stderr, bench >>

\* send_email(subject, body): the digest of the new matches.
WatchUber_Send ==
    /\ prog = "watch_uber" /\ pc = "send"
    /\ \E e \in environ : \E smtp_ok \in BOOLEAN :
          LET r == send_email(e, smtp_ok) IN
          /\ calls' = Append(calls,
                 Call("digest", << "[Uber Watch]", Len(send["uber"]) >>,
                      << [header |-> "New roles:", items |-> send["uber"]] >>, r))
          /\ environ' = IF r = "sent" THEN {e} ELSE environ
          /\ IF r = "sent"
             THEN pc' = "merge" /\ delivered' = Deliver(send) /\ UNCHANGED exc
             ELSE Raise(r) /\ UNCHANGED delivered
    /\ UNCHANGED << prog, site, files, args, jobs, matches, seen, send,
                    fetched, loaded, files0, observe, prevRun,
                    faults, stderr, bench >>

\* for m in new_matches: seen.add(m["url"])
WatchUber_Merge ==
    /\ prog = "watch_uber" /\ pc = "merge"
    /\ seen' = [seen EXCEPT !["uber"] = add_urls(@, send["uber"])]
    /\ pc' = "save"
    /\ UNCHANGED << prog, site, files, args, environ, jobs, matches, send, calls,
                    exc, fetched, loaded, files0, observe, delivered, prevRun,
                    faults, stderr, bench >>

\* save_seen(seen), the last statement of main().
WatchUber_Save ==
    /\ prog = "watch_uber" /\ pc = "save"
    /\ Save(SEEN_PATH, seen["uber"], "return")
    /\ UNCHANGED << prog, site, args, environ, jobs, matches, seen, send, calls,
                    fetched, loaded, files0, observe, delivered, prevRun,
                    faults, bench >>

WatchUber ==
    \/ WatchUber_TestEmail
    \/ WatchUber_Window
    \/ WatchUber_Fetch
    \/ WatchUber_Filter
    \/ WatchUber_Dump
    \/ WatchUber_Matches
    \/ WatchUber_Load
    \/ WatchUber_Send
    \/ WatchUber_Merge
    \/ WatchUber_Save

\* The process is killed from outside (a scheduler timeout) while main() runs.
Kill ==
    /\ pc \notin {"idle", "done"}
    /\ pc' = "done"
    /\ exc' = "killed"
    /\ UNCHANGED << prog, site, files, args, environ, jobs, matches, seen, send,
                    calls, fetched, loaded, files0, observe, delivered, prevRun,
                    faults, stderr, bench >>

Next ==
    \/ Invoke
    \/ Finish
    \/ SiteChange
    \/ WatchAll
    \/ WatchUber

\* Runs that the outside world lets end by themselves.
Spec == Init /\ [][Next]_vars

NextCrash ==
    \/ Next
    \/ Kill

\* Runs that may also be killed at any point.
SpecCrash == InitCrash /\ [][NextCrash]_vars

\* The exit status of the process that has ended.
ExitStatus == IF exc = "none" THEN 0 ELSE 1

(***************************************************************************)
(* What the claims speak of, in terms of one run.                          *)
(***************************************************************************)
\* The run fetched every source of the script.
AllFetched == \A s \in SourcesOf(prog) : fetched[s] = "ok"

\* The policy the run applies to source s.
PolicyOf(s, js) ==
    IF s = "msft" THEN filter_msft(js, args.msft_test_se) ELSE filter_targets(js)

\* The listings of source s that match and are new to the store the run
\* started with (every match under --send-all-now): the accumulator.
NewMatches(s) ==
    IF fetched[s] # "ok" THEN <<>>
    ELSE IF args.send_all_now THEN PolicyOf(s, jobs[s])
    ELSE diff_new(PolicyOf(s, jobs[s]), load_seen(files0[PathOf(prog, s)]))

\* The source a section of a digest belongs to.
SourceOfSection(header) ==
    IF header \in {"Microsoft Jobs:", "Microsoft Jobs (test: 'software engineering')"}
    THEN "msft" ELSE "uber"

\* The listings of source s in the digest of call c, in the order of the mail.
RECURSIVE ItemsFrom(_, _, _)
ItemsFrom(body, k, s) ==
    IF k > Len(body) THEN <<>>
    ELSE (IF SourceOfSection(body[k].header) = s THEN body[k].items ELSE <<>>)
         \o ItemsFrom(body, k + 1, s)

DigestItems(c, s) == ItemsFrom(c.body, 1, s)

IsDigest(c) == c.kind = "digest"

\* A digest of this run was accepted by the SMTP server.
DigestSent == \E i \in DOMAIN calls : IsDigest(calls[i]) /\ calls[i].result = "sent"

\* The urls of source s in the digest that this step gets accepted.
AcceptedNow(s) ==
    IF /\ Len(calls') = Len(calls) + 1
       /\ IsDigest(calls'[Len(calls')])
       /\ calls'[Len(calls')].result = "sent"
    THEN UrlsOf(DigestItems(calls'[Len(calls')], s))
    ELSE {}

\* This run is a normal one, and the run before it completed the pipeline in
\* mode `kind` under the same policy on the listings the sites still serve.
RepeatsRun(kind) ==
    /\ prevRun.kind = kind
    /\ ~args.send_all_now /\ ~args.test_email
    /\ args.msft_test_se = prevRun.msft_test_se
    /\ AllFetched

(***************************************************************************)
(* C1. Idempotence: when a normal run has completed (its digest, if any,   *)
(* accepted) and the next normal run fetches the same listings under the   *)
(* same policy, that next run never calls send_email.                      *)
(***************************************************************************)
C1_Idempotence ==
    (pc = "done" /\ RepeatsRun("normal")) => calls = <<>>

\* The second run ends, and its listings do hold matches: all of them seen.
C1_Witness ==
    /\ pc = "done" /\ RepeatsRun("normal")
    /\ \E s \in Sources : matches[s] # <<>> /\ send[s] = <<>>
    /\ loaded

(***************************************************************************)
(* C2. The state files differ from what they were when the run started     *)
(* only once a digest of this run has been accepted: a run whose           *)
(* send_email raised, or that was killed before send_email returned,       *)
(* leaves every state file as it found it.                                 *)
(***************************************************************************)
C2_CommitAfterSend ==
    files # files0 => DigestSent

\* A run killed with new matches in hand and no mail out yet.
C2_Witness ==
    /\ pc = "done" /\ exc = "killed"
    /\ \E s \in Sources : send[s] # <<>>
    /\ calls = <<>>
    /\ files = files0

C5_PartialFailureIsolated ==
    ( /\ pc = "done"
      /\ \E a \in Sources : fetched[a] = "raised"
      /\ \E b \in Sources : NewMatches(b) # <<>> )
    => /\ \E i \in DOMAIN calls :
             /\ IsDigest(calls[i])
             /\ \A s \in Sources : DigestItems(calls[i], s) = NewMatches(s)
       /\ ExitStatus = 0

(***************************************************************************)
(* C6. forceAll, as claimed: a --send-all-now run mails every match, seen  *)
(* or not; once that digest is accepted its urls are in the state files    *)
(* when the run ends; and the next normal run on the same listings mails   *)
(* nothing.                                                                *)
(***************************************************************************)
C6_ForceAllThenQuiet ==
    /\ (args.send_all_now /\ calls # <<>> /\ IsDigest(calls[Len(calls)]))
          => \A s \in SourcesOf(prog) :
                DigestItems(calls[Len(calls)], s) = PolicyOf(s, jobs[s])
    /\ (pc = "done" /\ exc = "none" /\ args.send_all_now /\ DigestSent)
          => \A s \in SourcesOf(prog) :
                UrlsOf(PolicyOf(s, jobs[s])) \subseteq load_seen(files[PathOf(prog, s)])
    /\ (pc = "done" /\ RepeatsRun("force")) => calls = <<>>

(***************************************************************************)
(* C7. No-op on empty, as claimed: a run that fetched its sources and      *)
(* found no new match never calls send_email and leaves the state files    *)
(* as they were.                                                           *)
(***************************************************************************)
C7_NoOpOnEmpty ==
    ( /\ pc = "done" /\ exc = "none"
      /\ AllFetched
      /\ \A s \in Sources : NewMatches(s) = <<>> )
    => calls = <<>> /\ files = files0

(***************************************************************************)
(* C8. As claimed: no run calls send_email more than once, and a run that  *)
(* got as far as its accumulator of new matches and found it non-empty     *)
(* calls it exactly once, with the digest of all the sources.              *)
(***************************************************************************)
C8_NotifyExactlyOnce ==
    /\ Len(calls) =< 1
    /\ ( /\ pc = "done" /\ exc \in {"none", "RuntimeError", "SMTPException"}
         /\ AllFetched
         /\ \E s \in Sources : NewMatches(s) # <<>> )
       => /\ Len(calls) = 1
          /\ IsDigest(calls[1])
          /\ \A s \in Sources : DigestItems(calls[1], s) = NewMatches(s)

(***************************************************************************)
(* C9. testNotify, as claimed: a --test-email run fetches no source and    *)
(* neither reads nor writes a state file, and its only mail is the test    *)
(* mail.                                                                   *)
(***************************************************************************)
C9_TestNotifyOnly ==
    args.test_email =>
        /\ \A s \in Sources : fetched[s] = "no"
        /\ ~loaded
        /\ files = files0
        /\ \A i \in DOMAIN calls : calls[i].kind = "test"

(***************************************************************************)
(* C10. Configuration errors are fail-fast, as claimed: when send_email    *)
(* raises for a missing SMTP_USER / SMTP_PASS / TO_EMAIL, no fetch of a    *)
(* source has been started in that run.                                    *)
(***************************************************************************)
C10_ConfigFailFast ==
    (\E i \in DOMAIN calls : calls[i].result = "RuntimeError")
        => \A s \in Sources : fetched[s] = "no"

(***************************************************************************)
(* C11. As claimed: when a run has ended after its digest was accepted,    *)
(* the seen set in the state file of each source is the seen set the run   *)
(* loaded (the file as the run found it) joined with exactly the urls of   *)
(* that source in the digest.                                              *)
(***************************************************************************)
C11_CommitExactlyDigest ==
    \A i \in DOMAIN calls :
        (pc = "done" /\ exc = "none" /\ IsDigest(calls[i]) /\ calls[i].result = "sent")
        => \A s \in SourcesOf(prog) :
              load_seen(files[PathOf(prog, s)])
                = load_seen(files0[PathOf(prog, s)]) \cup UrlsOf(DigestItems(calls[i], s))

(***************************************************************************)
(* A function of the scripts called on its own: unit.arg is the argument   *)
(* of the call, unit.ret what the last call returned, unit.n the number of *)
(* calls made.  No script runs meanwhile.                                  *)
(***************************************************************************)
\* Calls of one function on the same argument.
MaxCalls == 2

\* No script is running and none has run; the state files are one of `stores`.
AtRestWith(stores) ==
    /\ MainInit({"nothing"}, stores, {{}})
    /\ prog = "watch_all"
    /\ site = NoJobs

AtRest ==
    /\ AtRestWith({NoFiles})
    /\ procs = NoProcs

UnitCall(fn, arg, ret) == [fn |-> fn, arg |-> arg, ret |-> ret, n |-> 0]

Called(fn) == unit.fn = fn /\ unit.n > 0

(***************************************************************************)
(* load_seen on the files a state path may hold.                           *)
(***************************************************************************)
\* Longest text of a state file load_seen is tried on, in lexemes.
MaxTextLen == 5

LoadLexemes ==
    JsonPunctuation \cup JsonNumbers \cup {S_SEEN, "https://www.uber.com/careers/list/101"}

StoredFiles ==
    {NoFile, Unreadable}
    \cup { TextFile(x) : x \in UNION { [1..k -> LoadLexemes] : k \in 0..MaxTextLen } }

InitLoad ==
    /\ AtRest
    /\ unit \in { UnitCall("load_seen", f, {}) : f \in StoredFiles }

\* seen = load_seen(path)
Call_load_seen ==
    /\ unit.fn = "load_seen" /\ unit.n = 0
    /\ unit' = [unit EXCEPT !.ret = load_seen(unit.arg), !.n = 1]
    /\ UNCHANGED << main, procs >>

NextLoad == Call_load_seen

SpecLoad == InitLoad /\ [][NextLoad]_vars

\* The file holds a JSON array of url strings.
IsUrlArray(file) ==
    /\ file.kind = "text"
    /\ json_loads(file.json).type = "list"
    /\ \A i \in DOMAIN json_loads(file.json).items :
          json_loads(file.json).items[i] \in Urls

(***************************************************************************)
(* C12. As claimed: load_seen returns the empty set for every state file   *)
(* that is absent, unreadable, or holds anything but a JSON array of url   *)
(* strings (a text that is no JSON, a JSON string, a JSON object, ...).    *)
(***************************************************************************)
C12_LoadEmptyUnlessUrlArray ==
    (Called("load_seen") /\ ~IsUrlArray(unit.arg)) => unit.ret = {}

(***************************************************************************)
(* One run of a script in which write_text may fail or be cut short.  The  *)
(* run finds the state files as earlier runs may have left them.           *)
(***************************************************************************)
\* Most urls a state file holds when the run starts.
MaxStored == 1

\* The source whose urls the state file at path p holds.
SourceAt(p) == IF p = SEEN_MSFT THEN "msft" ELSE "uber"

\* What save_seen leaves at path p when it succeeds: a commit always holds
\* the url just sent, so never the empty array.
SavedAt(p) ==
    { TextFile(json_dumps(sorted(S))) :
        S \in { U \in SUBSET { j.url : j \in Catalogue(SourceAt(p)) } :
                   1 =< Cardinality(U) /\ Cardinality(U) =< MaxStored } }

Stores == { f \in [Paths -> {NoFile} \cup UNION { SavedAt(p) : p \in Paths }] :
              \A p \in Paths : f[p] \in {NoFile} \cup SavedAt(p) }

InitWrite ==
    /\ MainInit({"nothing"}, Stores, {{"write"}})
    /\ procs = NoProcs
    /\ unit = NoUnit

NextRun ==
    \/ Invoke
    \/ WatchAll
    \/ WatchUber

SpecWrite == InitWrite /\ [][NextRun]_vars

\* The text save_seen writes for source s in this run.
NewText(s) == json_dumps(sorted(seen[s]))

(***************************************************************************)
(* C13. As claimed: whatever happens to a commit, the seen set a state     *)
(* file holds is the complete old one (what the run found) or the complete *)
(* new one (what the run set out to write).                                *)
(***************************************************************************)
C13_CommitAtomic ==
    \A s \in SourcesOf(prog) :
        \/ load_seen(files[PathOf(prog, s)]) = load_seen(files0[PathOf(prog, s)])
        \/ load_seen(files[PathOf(prog, s)]) = seen[s]

(***************************************************************************)
(* Two invocations of watch_all.py side by side on seen_uber.json.  Each   *)
(* has fetched and filtered on its own; the steps that touch the file are  *)
(* the read of load_seen and, inside write_text, the open() that truncates *)
(* and the write() of the text at the start of the file.                   *)
(***************************************************************************)
Procs == {1, 2}

\* What the Uber filter of an invocation may have selected.
MatchLists == { filter_targets(l) : l \in Listings["uber"] }

InitRace ==
    /\ AtRestWith(Stores)
    /\ files[SEEN_MSFT] = NoFile
    /\ unit = NoUnit
    /\ procs \in [Procs -> { [pc |-> "load", matches |-> m, seen |-> {}, wrote |-> FALSE] :
                             m \in MatchLists }]

\* seen_uber = load_seen(SEEN_UBER); send_uber; nothing to send: return;
\* send_email; seen_uber.add(...).
Proc_Load(i) ==
    /\ procs[i].pc = "load"
    /\ LET seen_set == load_seen(files[SEEN_UBER])
           send_uber == diff_new(procs[i].matches, seen_set)
       IN  procs' = [procs EXCEPT ![i].seen = add_urls(seen_set, send_uber),
                                  ![i].pc = IF send_uber = <<>> THEN "done" ELSE "open"]
    /\ UNCHANGED << main, unit >>

\* save_seen(SEEN_UBER, seen_uber): write_text opens the file for writing.
Proc_Open(i) ==
    /\ procs[i].pc = "open"
    /\ files' = [files EXCEPT ![SEEN_UBER] = open_w(@)]
    /\ procs' = [procs EXCEPT ![i].pc = "write"]
    /\ UNCHANGED << prog, site, pc, args, environ, jobs, matches, seen, send, calls,
                    exc, fetched, loaded, files0, observe, delivered, prevRun,
                    faults, stderr, unit >>

\* ... and writes the text and closes.
Proc_Write(i) ==
    /\ procs[i].pc = "write"
    /\ files' = [files EXCEPT ![SEEN_UBER] =
                    write_at(@, json_dumps(sorted(procs[i].seen)))]
    /\ procs' = [procs EXCEPT ![i].pc = "done", ![i].wrote = TRUE]
    /\ UNCHANGED << prog, site, pc, args, environ, jobs, matches, seen, send, calls,
                    exc, fetched, loaded, files0, observe, delivered, prevRun,
                    faults, stderr, unit >>

NextRace ==
    \E i \in Procs :
        \/ Proc_Load(i)
        \/ Proc_Open(i)
        \/ Proc_Write(i)

SpecRace == InitRace /\ [][NextRace]_vars

(***************************************************************************)
(* C14. As claimed: when the two invocations have ended and one of them    *)
(* has written, the state file is the complete text one of the writers     *)
(* wrote.                                                                  *)
(***************************************************************************)
C14_LastWriterWins ==
    ( /\ \A i \in Procs : procs[i].pc = "done"
      /\ \E i \in Procs : procs[i].wrote )
    => \E i \in Procs :
          /\ procs[i].wrote
          /\ files[SEEN_UBER] = TextFile(json_dumps(sorted(procs[i].seen)))

\* save_seen printed its warning for path p in this run.
Warned(p) == \E k \in DOMAIN stderr : stderr[k] = Warn(p)

(***************************************************************************)
(* C15. A run that got its digest accepted and was not killed ends with    *)
(* exit status 0 whatever happened to its writes, and has attempted the    *)
(* commit of every source: each state file holds the complete new text or  *)
(* the warning for its path is on stderr.                                  *)
(***************************************************************************)
C15_WriteFailureTolerated ==
    (pc = "done" /\ exc # "killed" /\ loaded /\ DigestSent)
    => /\ ExitStatus = 0
       /\ \A s \in SourcesOf(prog) :
             \/ files[PathOf(prog, s)] = TextFile(NewText(s))
             \/ Warned(PathOf(prog, s))

\* watch_all.py: the write of seen_uber.json failed and was logged, the
\* commit of seen_msft.json was still made, and the run ended normally.
C15_Witness ==
    /\ prog = "watch_all" /\ pc = "done" /\ DigestSent
    /\ files[SEEN_UBER] # TextFile(NewText("uber"))
    /\ Warned(SEEN_UBER)
    /\ ~Warned(SEEN_MSFT)
    /\ files[SEEN_MSFT] = TextFile(NewText("msft"))
    /\ files[SEEN_MSFT] # files0[SEEN_MSFT]
    /\ ExitStatus = 0

(***************************************************************************)
(* One run of a script in which a page may fail to render its listings     *)
(* within the selector timeouts.                                           *)
(***************************************************************************)
InitRender ==
    /\ MainInit({"nothing"}, {NoFiles}, {{"render"}})
    /\ procs = NoProcs
    /\ unit = NoUnit

SpecRender == InitRender /\ [][NextRun]_vars

(***************************************************************************)
(* C16. As claimed: a fetch that hit a timeout or a transport failure      *)
(* ends main() with the exception of the fetch (here PlaywrightError, the  *)
(* error page.goto raises); the pipeline never goes on with what such a    *)
(* fetch returned.                                                         *)
(***************************************************************************)
C16_FetchFailureRaises ==
    \A s \in Sources :
        fetched[s] \in {"raised", "timed_out"}
        => pc = "done" /\ exc = "PlaywrightError"

(***************************************************************************)
(* The url of a listing.  An href is a sequence of lexemes: the delimiters *)
(* : / ? # and words (runs of letters, digits and dots: "https", a host    *)
(* name, a path segment, the text of a query or of a fragment).  The       *)
(* hrefs of this model hold no blank, control character, bracket or ";",   *)
(* on which .strip() and urlparse do more.                                 *)
(***************************************************************************)
\* Longest raw href, in lexemes.
MaxHrefLen == 6

HrefDelimiters == {":", "/", "?", "#"}

\* The lexemes of the raw hrefs: the delimiters, the scheme name of the
\* sites and a word that is no scheme urllib knows.
HrefLexemes == HrefDelimiters \cup {"https", "x"}

Hrefs == UNION { [1..k -> HrefLexemes] : k \in 0..MaxHrefLen }

UBER_ORIGIN == <<"https", ":", "/", "/", "www.uber.com">>

MSFT_ORIGIN == <<"https", ":", "/", "/", "jobs.careers.microsoft.com">>

\* str.find: the index of the first lexeme of h that is in toks, 0 if none.
Find(h, toks) ==
    IF \E i \in DOMAIN h : h[i] \in toks
    THEN CHOOSE i \in DOMAIN h : h[i] \in toks /\ \A j \in 1..(i - 1) : h[j] \notin toks
    ELSE 0

\* h[k:]
From(h, k) == SubSeq(h, k, Len(h))

\* href.startswith("/")
startswith_slash(h) == h # <<>> /\ h[1] = "/"

\* urllib.parse.urlparse(url) (CPython 3.11): the scheme is what precedes
\* the first ":" when that is made of scheme characters only; the netloc
\* follows a leading "//" up to the next / ? or #; the fragment follows the
\* first "#", the query the first "?" before it.
urlparse(url) ==
    LET c == Find(url, {":"})
        has_scheme == c > 1 /\ \A j \in 1..(c - 1) : url[j] \notin HrefDelimiters
        u1 == IF has_scheme THEN From(url, c + 1) ELSE url
        has_netloc == Len(u1) >= 2 /\ u1[1] = "/" /\ u1[2] = "/"
        d == Find(From(u1, 3), {"/", "?", "#"})
        u2 == IF ~has_netloc THEN u1
              ELSE IF d = 0 THEN <<>> ELSE From(u1, d + 2)
        f == Find(u2, {"#"})
        u3 == IF f = 0 THEN u2 ELSE SubSeq(u2, 1, f - 1)
        q == Find(u3, {"?"})
    IN  [ scheme   |-> IF has_scheme THEN SubSeq(url, 1, c - 1) ELSE <<>>,
          netloc   |-> IF ~has_netloc THEN <<>>
                       ELSE IF d = 0 THEN From(u1, 3) ELSE SubSeq(u1, 3, d + 1),
          path     |-> IF q = 0 THEN u3 ELSE SubSeq(u3, 1, q - 1),
          query    |-> IF q = 0 THEN <<>> ELSE From(u3, q + 1),
          fragment |-> IF f = 0 THEN <<>> ELSE From(u2, f + 1) ]

\* The schemes of urllib.parse.uses_netloc an href of the model can have.
uses_netloc == { <<"https">> }

\* urllib.parse.urlunparse(parts) (CPython 3.11): "//" and the netloc are
\* written when there is a netloc, or when the scheme uses one and the path
\* does not itself start with "//".
urlunparse(parts) ==
    LET slashes == \/ parts.netloc # <<>>
                   \/ /\ parts.scheme \in uses_netloc
                      /\ ~(Len(parts.path) >= 2 /\ parts.path[1] = "/" /\ parts.path[2] = "/")
        rooted == IF parts.path # <<>> /\ parts.path[1] # "/"
                  THEN <<"/">> \o parts.path ELSE parts.path
        url == IF slashes THEN <<"/", "/">> \o parts.netloc \o rooted ELSE parts.path
    IN  (IF parts.scheme # <<>> THEN parts.scheme \o <<":">> ELSE <<>>)
        \o url
        \o (IF parts.query # <<>> THEN <<"?">> \o parts.query ELSE <<>>)
        \o (IF parts.fragment # <<>> THEN <<"#">> \o parts.fragment ELSE <<>>)

\* What the fetch of source s makes of the href of an anchor: the "url" of
\* the job, which main() keeps in the seen set.
normalize(s, href) ==
    IF s = "uber"
    THEN (IF startswith_slash(href) THEN UBER_ORIGIN \o href ELSE href)
    ELSE LET abs == IF startswith_slash(href) THEN MSFT_ORIGIN \o href ELSE href
         IN  urlunparse([urlparse(abs) EXCEPT !.query = <<>>])

InitUrl ==
    /\ AtRest
    /\ unit \in { UnitCall("normalize", [s |-> s, href |-> h], <<>>) :
                    s \in Sources, h \in Hrefs }

\* The fetch turns the raw href of an anchor into the url of the job.
Call_normalize ==
    /\ unit.fn = "normalize" /\ unit.n = 0
    /\ unit' = [unit EXCEPT !.ret = normalize(unit.arg.s, unit.arg.href), !.n = 1]
    /\ UNCHANGED << main, procs >>

\* The url of a job is served as an href again and goes through the same
\* lines once more.
Call_normalize_again ==
    /\ unit.fn = "normalize" /\ unit.n = 1
    /\ unit' = [unit EXCEPT !.arg.href = unit.ret,
                            !.ret = normalize(unit.arg.s, unit.ret),
                            !.n = 2]
    /\ UNCHANGED << main, procs >>

NextUrl ==
    \/ Call_normalize
    \/ Call_normalize_again

SpecUrl == InitUrl /\ [][NextUrl]_vars

\* The href without its query and its fragment.
Bare(href) ==
    IF Find(href, {"?", "#"}) = 0 THEN href
    ELSE SubSeq(href, 1, Find(href, {"?", "#"}) - 1)

(***************************************************************************)
(* C17. As claimed: the url the fetch of a source gives a listing is the   *)
(* one it gives the same href without query and fragment, so that two raw  *)
(* hrefs of a listing that differ only there have one identity.            *)
(***************************************************************************)
C17_SameIdentity ==
    (Called("normalize") /\ unit.n = 1 /\ Bare(unit.arg.href) # <<>>)
    => unit.ret = normalize(unit.arg.s, Bare(unit.arg.href))

(***************************************************************************)
(* C18. As claimed: normalizing the url of a job again returns it          *)
(* unchanged.                                                              *)
(***************************************************************************)
C18_Idempotent ==
    (Called("normalize") /\ unit.n = 2) => unit.ret = unit.arg.href

(***************************************************************************)
(* matches_target on titles.  A title is put together from pieces: the     *)
(* tokens of the policy in the case postings write them, words that hold a *)
(* token inside, and a blank; the titles of the catalogue and of the       *)
(* examples are added as they are.                                         *)
(***************************************************************************)
\* Longest title, in pieces.
MaxPieces == 4

Pieces ==
    { <<"2","0","2","6">>,
      <<"S","W","E">>,
      <<"N","e","w","s","w","e","e","k">>,
      <<"S","o","f","t","w","a","r","e">>,
      <<"E","n","g","i","n","e","e","r">>,
      <<"G","r","a","d","u","a","t","e">>,
      <<" ">> }

\* The lists of at most n pieces.
PieceLists(n) == UNION { [1..k -> Pieces] : k \in 0..n }

RECURSIVE Join(_)
\* "".join(ps)
Join(ps) == IF ps = <<>> THEN <<>> ELSE Head(ps) \o Join(Tail(ps))

ExampleTitles ==
    { T_SWE_NEW_GRAD, T_WRONG_YEAR, T_GRADUATE, T_SE_INTERN,
      T_NEWSWEEK, T_NEW_GRAD_PROGRAM, T_NEW_GRADUATE_PROGRAM }

\* The titles: the pieces put together, the shorter ones also with a comma
\* at the end, and the examples.
Titles ==
    { Join(ps) : ps \in PieceLists(MaxPieces) }
    \cup { Join(ps) \o <<",">> : ps \in PieceLists(MaxPieces - 1) }
    \cup { Chars(title) : title \in ExampleTitles }

InitMatch ==
    /\ AtRest
    /\ unit \in { UnitCall("matches_target", title, <<>>) : title \in Titles }

\* matches_target(title), called again on the same title up to MaxCalls
\* times; ret lists what the calls returned.
Call_matches_target ==
    /\ unit.fn = "matches_target" /\ unit.n < MaxCalls
    /\ unit' = [unit EXCEPT !.ret = Append(unit.ret, matches_target_chars(unit.arg)),
                            !.n = unit.n + 1]
    /\ UNCHANGED << main, procs >>

NextMatch == Call_matches_target

SpecMatch == InitMatch /\ [][NextMatch]_vars

\* c and d are one character, whatever the case.
SameLetter(c, d) ==
    \/ c = d
    \/ \E i \in DOMAIN UpperCase : {c, d} = {UpperCase[i], LowerCase[i]}

\* The token stands in the title from position i on, in any case.
TokenAt(title, token, i) ==
    /\ i >= 1
    /\ i + Len(token) - 1 =< Len(title)
    /\ \A k \in DOMAIN token : SameLetter(title[i + k - 1], token[k])

HasToken(title, token) == \E i \in DOMAIN title : TokenAt(title, token, i)

\* The token is a word of the title: a blank or an end of the title on
\* either side.
HasWord(title, token) ==
    \E i \in DOMAIN title :
        /\ TokenAt(title, token, i)
        /\ i = 1 \/ title[i - 1] = " "
        /\ i + Len(token) - 1 = Len(title) \/ title[i + Len(token)] = " "

TOKEN_SWE == <<"s","w","e">>

HasRole(title) ==
    \/ HasToken(title, P_SOFTWARE_ENGINEER)
    \/ HasToken(title, P_SOFTWARE_ENGINEERING)
    \/ HasWord(title, TOKEN_SWE)

\* The base predicate of the policy: year and (role or graduate).
MatchPolicy(title) ==
    HasToken(title, P_2026) /\ (HasRole(title) \/ HasToken(title, P_GRADUATE))

(***************************************************************************)
(* C19. Every call of matches_target on a title returns TRUE exactly when  *)
(* the title holds, in any case, "2026" and either "software engineer",    *)
(* "software engineering", the word "swe" between blanks or ends of the    *)
(* title, or "graduate"; so all calls on one title return the same, and    *)
(* "swe" inside a longer word is no role token.                            *)
(***************************************************************************)
C19_MatchesTarget ==
    Called("matches_target")
    => LET policy == MatchPolicy(unit.arg)
       IN  \A k \in DOMAIN unit.ret : unit.ret[k] = policy

\* "2026 Newsweek" and the like: the year, "swe" only inside a word, no
\* other token; called twice, not a match.
C19_Witness ==
    /\ Called("matches_target") /\ unit.n = MaxCalls
    /\ HasToken(unit.arg, P_2026) /\ HasToken(unit.arg, TOKEN_SWE)
    /\ ~HasRole(unit.arg) /\ ~HasToken(unit.arg, P_GRADUATE)
    /\ unit.ret[unit.n] = FALSE

(***************************************************************************)
(* C20. As claimed: "2026 Data Analyst, New Grad Program" is a match.      *)
(***************************************************************************)
C20_NewGradProgramMatches ==
    (Called("matches_target") /\ unit.arg = Chars(T_NEW_GRAD_PROGRAM))
    => unit.ret[1] = TRUE

(***************************************************************************)
(* C20, amended.  "2026 Data Analyst, New Grad Program" is not a match:    *)
(* it has the year but neither a role token nor "graduate" ("Grad" is not  *)
(* that token).  "2026 Data Analyst, New Graduate Program" has no role     *)
(* token either and is a match, by the year and "graduate".                *)
(***************************************************************************)
C20_GraduateBranch ==
    Called("matches_target")
    => /\ unit.arg = Chars(T_NEW_GRAD_PROGRAM) => unit.ret[1] = FALSE
       /\ unit.arg = Chars(T_NEW_GRADUATE_PROGRAM)
          => ~HasRole(unit.arg) /\ unit.ret[1] = TRUE

C20_Witness ==
    /\ Called("matches_target")
    /\ unit.arg = Chars(T_NEW_GRADUATE_PROGRAM)
    /\ unit.ret[1] = TRUE

====
